---- MODULE Spec2Model ----
(***************************************************************************)
(* Model of smartify-Jobs (src/main.py): the Telegram bot's preference     *)
(* store handlers, the subscribe keyboard callbacks, the daily digest run  *)
(* with its channel broadcast, the two query parsers with the /jobs and    *)
(* free-text searches, /settz, and two handler coroutines of one user      *)
(* interleaved at their awaits.                                            *)
(*                                                                         *)
(* The modules database, jobs_api, ai_tools, utils and config are imported *)
(* by main.py but are not part of the source tree; their operators below   *)
(* follow the collaborator contracts of spec.md section 6.                 *)
(***************************************************************************)
EXTENDS Integers, Sequences, FiniteSets, TLC

\* ---------------------------------------------------------------- bounds

\* Longest list a provider (get_jobs / get_ai_tools) returns in the model.
MaxItems == 1

\* Longest argument list of a /jobs command in the model.
MaxArgs == 3

\* Longest free-text message in the model, in pieces of TextPieces.
MaxPieces == 3

\* ------------------------------------------------------------ vocabulary

\* Telegram users talking to the bot.
Users == {"u1", "u2"}

\* The three preference flags, in the order every dict literal of main.py
\* lists them.
KeyOrder == <<"jobs_au", "jobs_in", "ai_tools">>

Keys == {KeyOrder[i] : i \in 1..Len(KeyOrder)}

\* Keys a "sub:toggle:<key>" callback can carry: the handler pattern
\* ^(ui:open_subscribe|sub:.*)$ admits any suffix.
CallbackKeys == Keys \cup {"bogus"}

\* config.DEFAULT_TZ, the zone of a record no /settz has written.
DefaultTz == "Australia/Melbourne"

NoTz == "no_tz"

\* upsert_user called without prefs: nothing to merge.
NoPrefs == <<>>

\* The dict literal {"jobs_au": False, "jobs_in": False, "ai_tools": False}.
AllFalse == [k \in Keys |-> FALSE]

\* ------------------------------------------------------- preference store

\* database.get_user: the stored record, or a default all-false record when
\* the user has none.  Returns a value: changing it does not change the store.
GetUser(d, u) ==
  IF u \in DOMAIN d THEN d[u] ELSE [prefs |-> AllFalse, tz |-> DefaultTz]

\* dict.update of the stored flags by the provided (possibly partial) flags.
MergePrefs(old, new) ==
  [k \in (DOMAIN old) \cup (DOMAIN new) |->
     IF k \in DOMAIN new THEN new[k] ELSE old[k]]

\* database.upsert_user(user_id, prefs=None, tz=None): creates the record if
\* absent and merges the provided fields into it.
UpsertUser(d, u, p, tz) ==
  LET cur == GetUser(d, u)
      rec == [prefs |-> MergePrefs(cur.prefs, p),
              tz    |-> IF tz = NoTz THEN cur.tz ELSE tz]
  IN  [x \in (DOMAIN d) \cup {u} |-> IF x = u THEN rec ELSE d[x]]

\* user.get("prefs", {...all false...}) as every handler reads it.
PrefsOf(d, u) == GetUser(d, u).prefs

\* prefs.get(key): None (falsy) for a key the dict does not hold.
PrefGet(p, k) == IF k \in DOMAIN p THEN p[k] ELSE FALSE

\* ------------------------------------------------------------- rendering

\* build_subscribe_keyboard: one marker per flag button.
BuildSubscribeKeyboard(p) ==
  [k \in Keys |-> IF PrefGet(p, k) THEN "on" ELSE "off"]

NoMarks == [k \in Keys |-> "-"]

\* No message with buttons yet.
NoView == [kind |-> "none", marks |-> NoMarks]

\* The welcome message with start_keyboard().
StartView == [kind |-> "start", marks |-> NoMarks]

\* build_subscribe_keyboard shown in the message.
KeyboardView(p) ==
  [kind |-> "keyboard", marks |-> BuildSubscribeKeyboard(p)]

\* "Saved: {pretty}.": the edited message carries no buttons.
SavedView == [kind |-> "saved", marks |-> NoMarks]

\* "Unsubscribed from all."
ClearedView == [kind |-> "unsubscribed", marks |-> NoMarks]

VARIABLES
  db,          \* the preference store: user id -> [prefs, tz]
  watched,     \* the user whose chat is observed
  view,        \* the watched user's bot message carrying inline buttons
  snap,        \* the working snapshot the watched user's session stands for
  tog,         \* the watched user's previous toggle and the view before it
  CHANNEL_ID,  \* config.CHANNEL_ID
  pc,          \* position of the digest run
  batch,       \* rows read by all_users() when the run started
  idx,         \* index into batch of the row the loop is at
  fetched,     \* provider outcomes of the step that ran last
  msg,         \* the delivery attempted by the step that ran last
  attempts,    \* per user: deliveries attempted in this run
  failed,      \* users whose delivery failed in this run
  processed,   \* users whose loop iteration completed in this run
  chan,        \* outcome of post_channel_summary
  req,         \* the update handled last: command, user, arguments or text
  query,       \* what the parser made of that update
  calls,       \* get_jobs calls made while handling it
  reply,       \* the message sent back for it
  race         \* two handler coroutines of one user and the store they met

uiVars == <<db, view, watched, snap, tog, race>>

runVars == <<pc, batch, idx, fetched, msg, attempts, failed, processed, chan,
             race>>

reqVars == <<req, query, calls, reply>>

vars == <<db, view, watched, snap, tog, CHANNEL_ID, pc, batch, idx, fetched, msg,
          attempts, failed, processed, chan, req, query, calls, reply, race>>

NoSnap == [valid |-> FALSE, prefs |-> AllFalse]

Snapshot(p) == [valid |-> TRUE, prefs |-> p]

NoTog == [valid |-> FALSE, key |-> "-", before |-> NoView]

\* No delivery attempted by the step that ran last.
NoMsg == [to |-> "-", flags |-> AllFalse, text |-> <<>>, outcome |-> "none"]

\* A coroutine slot with no handler in it.
NoTask == [op |-> "none", arg |-> <<>>, pc |-> "free", seen |-> AllFalse]

\* No handler coroutine is in flight.
NoRace == [base |-> [u \in {} |-> 0], tasks |-> <<NoTask, NoTask>>]

\* No update handled yet.
NoReq == [cmd |-> "none", user |-> "-", args |-> <<>>, text |-> <<>>,
          before |-> AllFalse]

NoLocation == [some |-> FALSE, val |-> <<>>]

NoQuery == [parsed |-> FALSE, keyword |-> <<>>, country |-> <<>>,
            location |-> NoLocation, bare |-> <<>>, rest |-> <<>>]

NoReply == [kind |-> "none", country |-> <<>>, found |-> 0]

\* A step of the keyboard handlers and the digest run: no search update.
Quiet == UNCHANGED reqVars

\* Outcomes of one provider call: a list of items, or an exception.
NotCalled == [status |-> "not_called", items |-> <<>>]

Raised == [status |-> "raised", items |-> <<>>]

Returned(n) == [status |-> "ok", items |-> [i \in 1..n |-> i]]

ProviderResults == {Returned(n) : n \in 0..MaxItems} \cup {Raised}

NoFetch == [k \in Keys |-> NotCalled]

\* Any action of user u other than a toggle ends a run of consecutive toggles.
EndToggles(u) == tog' = IF u = watched THEN NoTog ELSE tog

\* Any action of user u other than open, toggle and done ends the session the
\* working snapshot belongs to.
EndSession(u) == snap' = IF u = watched THEN NoSnap ELSE snap

\* ------------------------------------------------------ command handlers

\* Lower-casing of the argument tokens the model draws from.
Lower(a) ==
  CASE a = "JOBS_IN" -> "jobs_in"
    [] a = "Ai_Tools" -> "ai_tools"
    [] OTHER -> a

\* Tokens a /subscribe command can carry.
ArgTokens == <<"jobs_au", "JOBS_IN", "Ai_Tools", "weather">>

\* context.args of a /subscribe command: subscribe only tests the list for
\* emptiness and membership, so one list per set of tokens covers every case.
ArgLists ==
  {SelectSeq(ArgTokens, LAMBDA a : a \in S) :
     S \in SUBSET {ArgTokens[i] : i \in 1..Len(ArgTokens)}}

\* Commands are dispatched while no digest run is in progress.
Idle == pc = "idle"

\* start: upsert_user(user_id), then the welcome message with its
\* "Subscribe" button.
Start(u) ==
  /\ Idle
  /\ db' = UpsertUser(db, u, NoPrefs, NoTz)
  /\ view' = IF u = watched THEN StartView ELSE view
  /\ EndSession(u) /\ EndToggles(u)
  /\ UNCHANGED <<watched, CHANNEL_ID, runVars>>

\* Variant of ContentFlags: the dict names every flag, the command's own as
\* True and the others as False.
ContentFlagsExclusive(cmd) ==
  CASE cmd = "jobs_au" -> [k \in Keys |-> k = "jobs_au"]
    [] cmd = "jobs_in" -> [k \in Keys |-> k = "jobs_in"]
    [] cmd = "aitools" -> [k \in Keys |-> k = "ai_tools"]
    [] cmd = "both"    -> [k \in Keys |-> k \in {"jobs_au", "ai_tools"}]

\* jobs_au / jobs_in / aitools / both: upsert_user with the command's own
\* flags set to True, before the content is fetched and replied.
ContentFlags(cmd) ==
  CASE cmd = "jobs_au" -> [jobs_au |-> TRUE]
    [] cmd = "jobs_in" -> [jobs_in |-> TRUE]
    [] cmd = "aitools" -> [ai_tools |-> TRUE]
    [] cmd = "both"    -> [jobs_au |-> TRUE, ai_tools |-> TRUE]

ContentCommands == {"jobs_au", "jobs_in", "aitools", "both"}

ContentCommand(u, cmd) ==
  /\ Idle
  /\ db' = UpsertUser(db, u, ContentFlags(cmd), NoTz)
  /\ EndSession(u) /\ EndToggles(u)
  /\ UNCHANGED <<view, watched, CHANNEL_ID, runVars>>

\* Variant of SubscribePrefs: only the named flags are in the dict, as True.
SubscribePrefsNamedOnly(args) ==
  LET low == {Lower(args[i]) : i \in 1..Len(args)}
  IN  [k \in Keys \cap low |-> TRUE]

\* subscribe, lines 223-230: the flags named by the lower-cased arguments.
SubscribePrefs(args) ==
  LET low == {Lower(args[i]) : i \in 1..Len(args)}
  IN  [k \in Keys |-> k \in low]

\* subscribe with arguments writes the whole flag set; without arguments it
\* shows the toggle keyboard for the stored flags.
Subscribe(u, args) ==
  /\ Idle
  /\ IF args # <<>>
       THEN /\ db' = UpsertUser(db, u, SubscribePrefs(args), NoTz)
            /\ EndSession(u)
            /\ UNCHANGED view
       ELSE /\ view' = IF u = watched THEN KeyboardView(PrefsOf(db, u)) ELSE view
            /\ snap' = IF u = watched THEN Snapshot(PrefsOf(db, u)) ELSE snap
            /\ UNCHANGED db
  /\ EndToggles(u)
  /\ UNCHANGED <<watched, CHANNEL_ID, runVars>>

\* The dict literal unsubscribe passes to upsert_user.
UnsubscribePrefs == [k \in Keys |-> FALSE]

\* Variant of Unsubscribe: the user's record is deleted.
UnsubscribeDeletes(u) ==
  /\ Idle
  /\ db' = [x \in (DOMAIN db) \ {u} |-> db[x]]
  /\ EndSession(u) /\ EndToggles(u)
  /\ UNCHANGED <<view, watched, CHANNEL_ID, runVars>>

Unsubscribe(u) ==
  /\ Idle
  /\ db' = UpsertUser(db, u, UnsubscribePrefs, NoTz)
  /\ EndSession(u) /\ EndToggles(u)
  /\ UNCHANGED <<view, watched, CHANNEL_ID, runVars>>

\* ------------------------------------------------------------ sub_callback

\* The buttons of the subscribe keyboard exist while that keyboard is shown.
\* Only the watched user's message is followed; any other user may hold a
\* keyboard message at any time.
HasKeyboard(u) == u = watched => view.kind = "keyboard"

\* The "Subscribe" button of the welcome message, likewise.
HasStartButton(u) == u = watched => view.kind = "start"

\* "ui:open_subscribe": the stored flags rendered as the toggle keyboard.
OpenSubscribe(u) ==
  /\ Idle
  /\ HasStartButton(u)
  /\ view' = IF u = watched THEN KeyboardView(PrefsOf(db, u)) ELSE view
  /\ snap' = IF u = watched THEN Snapshot(PrefsOf(db, u)) ELSE snap
  /\ EndToggles(u)
  /\ UNCHANGED <<db, watched, CHANNEL_ID, runVars>>

\* "sub:nop": returns after reading the record.
SubNop(u) ==
  /\ Idle
  /\ HasKeyboard(u)
  /\ EndSession(u) /\ EndToggles(u)
  /\ UNCHANGED <<db, view, watched, CHANNEL_ID, runVars>>

\* Variant of ClearPrefs: the literal misses the ai_tools key.
ClearPrefsPartial == [k \in {"jobs_au", "jobs_in"} |-> FALSE]

\* The dict literal the "sub:clear" branch persists.
ClearPrefs == [k \in Keys |-> FALSE]

\* "sub:clear": all flags false, persisted, confirmation text.
SubClear(u) ==
  /\ Idle
  /\ HasKeyboard(u)
  /\ db' = UpsertUser(db, u, ClearPrefs, NoTz)
  /\ view' = IF u = watched THEN ClearedView ELSE view
  /\ EndSession(u) /\ EndToggles(u)
  /\ UNCHANGED <<watched, CHANNEL_ID, runVars>>

\* "sub:done": prefs is what get_user returned at the top of this callback.
SubDone(u) ==
  LET prefs == PrefsOf(db, u)
  IN  /\ Idle
      /\ HasKeyboard(u)
      /\ db' = UpsertUser(db, u, prefs, NoTz)
      /\ view' = IF u = watched THEN SavedView ELSE view
      /\ EndToggles(u)
      /\ UNCHANGED <<snap, watched, CHANNEL_ID, runVars>>

\* prefs[key] = not prefs.get(key, False) on the dict read in this callback.
Flip(p, key) ==
  [k \in (DOMAIN p) \cup {key} |-> IF k = key THEN ~PrefGet(p, key) ELSE p[k]]

\* Variant of SubToggle: the flipped dict is also written to the store.
SubToggleSaves(u, key) ==
  LET prefs == Flip(PrefsOf(db, u), key)
  IN  /\ Idle
      /\ HasKeyboard(u)
      /\ db' = UpsertUser(db, u, prefs, NoTz)
      /\ view' = IF u = watched THEN KeyboardView(prefs) ELSE view
      /\ snap' = IF u # watched THEN snap
                 ELSE IF snap.valid /\ key \in Keys
                        THEN Snapshot(Flip(snap.prefs, key)) ELSE NoSnap
      /\ tog' = IF u # watched THEN tog
                ELSE [valid |-> TRUE, key |-> key, before |-> view]
      /\ UNCHANGED <<watched, CHANNEL_ID, runVars>>

\* "sub:toggle:<key>": the flipped dict is rendered and then dropped.
SubToggle(u, key) ==
  LET prefs == Flip(PrefsOf(db, u), key)
  IN  /\ Idle
      /\ HasKeyboard(u)
      /\ view' = IF u = watched THEN KeyboardView(prefs) ELSE view
      /\ snap' = IF u # watched THEN snap
                 ELSE IF snap.valid /\ key \in Keys
                        THEN Snapshot(Flip(snap.prefs, key)) ELSE NoSnap
      /\ tog' = IF u # watched THEN tog
                ELSE [valid |-> TRUE, key |-> key, before |-> view]
      /\ UNCHANGED <<db, watched, CHANNEL_ID, runVars>>

\* ------------------------------------------------------------ formatting

\* One token of a message text.
Tok(t, n) == [t |-> t, n |-> n]

\* "\n\n—\n\n", the separator both digests join their sections with.
Sep == Tok("sep", 0)

\* The section titles of lines 391-395 and 110-118.
Title(k) ==
  CASE k = "jobs_au"  -> Tok("AU Jobs", 0)
    [] k = "jobs_in"  -> Tok("India Jobs", 0)
    [] k = "ai_tools" -> Tok("AI Tools", 0)

\* utils.format_jobs: one line per posting, the empty string for no posting.
FormatJobs(items) == [i \in 1..Len(items) |-> Tok("job", items[i])]

\* utils.format_tools: one line per tool, the empty string for no tool.
FormatTools(items) == [i \in 1..Len(items) |-> Tok("tool", items[i])]

\* The formatter each section uses.
Format(k, items) ==
  IF k = "ai_tools" THEN FormatTools(items) ELSE FormatJobs(items)

\* str.strip() is truthy: the text holds something that is not white space.
Strip(text) == \E i \in 1..Len(text) : text[i].t # "space"

\* sep.join(parts)
RECURSIVE Join(_, _)
Join(parts, sep) ==
  IF parts = <<>> THEN <<>>
  ELSE IF Len(parts) = 1 THEN parts[1]
  ELSE parts[1] \o <<sep>> \o Join(Tail(parts), sep)

\* ------------------------------------------------------------- daily push

\* database.all_users(): one row per stored user, in some order.
AllUsers(d) ==
  {rows \in [1..Cardinality(DOMAIN d) -> [user_id : DOMAIN d, prefs : {d[u].prefs : u \in DOMAIN d}]] :
     /\ \A i \in DOMAIN rows : rows[i].prefs = d[rows[i].user_id].prefs
     /\ \A i, j \in DOMAIN rows : i # j => rows[i].user_id # rows[j].user_id}

\* any(p.values())
AnyFlag(p) == \E k \in DOMAIN p : p[k]

\* Provider calls of one step, made in key order for the keys in `wanted`;
\* the first exception ends the step, so no later call is made.
FetchOutcomes(wanted) ==
  {f \in [Keys -> ProviderResults \cup {NotCalled}] :
     \A i \in 1..Len(KeyOrder) :
       LET k == KeyOrder[i]
           stopped == \E j \in 1..(i - 1) : f[KeyOrder[j]] = Raised
       IN  (f[k] # NotCalled) <=> (k \in wanted /\ ~stopped)}

HasRaised(f) == \E k \in Keys : f[k] = Raised

\* Variant of UserParts: the India section is appended before the AU section.
UserPartsSwapped(p, f) ==
  LET p0 == <<>>
      p1 == IF PrefGet(p, "jobs_in")
              THEN Append(p0, <<Title("jobs_in")>> \o FormatJobs(f["jobs_in"].items))
              ELSE p0
      p2 == IF PrefGet(p, "jobs_au")
              THEN Append(p1, <<Title("jobs_au")>> \o FormatJobs(f["jobs_au"].items))
              ELSE p1
      p3 == IF PrefGet(p, "ai_tools")
              THEN Append(p2, <<Title("ai_tools")>> \o FormatTools(f["ai_tools"].items))
              ELSE p2
  IN  p3

\* push_daily_job, lines 389-395: one part per enabled flag.
UserParts(p, f) ==
  LET p0 == <<>>
      p1 == IF PrefGet(p, "jobs_au")
              THEN Append(p0, <<Title("jobs_au")>> \o FormatJobs(f["jobs_au"].items))
              ELSE p0
      p2 == IF PrefGet(p, "jobs_in")
              THEN Append(p1, <<Title("jobs_in")>> \o FormatJobs(f["jobs_in"].items))
              ELSE p1
      p3 == IF PrefGet(p, "ai_tools")
              THEN Append(p2, <<Title("ai_tools")>> \o FormatTools(f["ai_tools"].items))
              ELSE p2
  IN  p3

\* Variant of AfterUserSend: a failed delivery propagates out of the loop.
AfterUserSendPropagates(ok) == IF ok THEN "users" ELSE "aborted"

\* Lines 398-406: the try/except around send_message swallows the failure,
\* so the loop goes on either way.
AfterUserSend(ok) == "users"

\* Variant of NextRow: a failed delivery is tried again.
NextRowRetries(i, ok) == IF ok THEN i + 1 ELSE i

\* The for loop of line 383 moves to the next row after each iteration.
NextRow(i, ok) == i + 1

\* pushnow or the scheduled daily job enters push_daily_job: all_users() is
\* read once.
StartRun ==
  /\ Idle
  /\ \E rows \in AllUsers(db) : batch' = rows
  /\ pc' = "users"
  /\ idx' = 1
  /\ fetched' = NoFetch
  /\ msg' = NoMsg
  /\ attempts' = [u \in Users |-> 0]
  /\ failed' = {}
  /\ processed' = {}
  /\ chan' = "none"
  /\ UNCHANGED <<uiVars, CHANNEL_ID>>

\* One iteration of the loop of push_daily_job.
UserStep ==
  /\ pc = "users"
  /\ idx <= Len(batch)
  /\ LET uid == batch[idx].user_id
         p   == batch[idx].prefs
     IN  \/ /\ ~AnyFlag(p)
            /\ idx' = NextRow(idx, TRUE)
            /\ processed' = processed \cup {uid}
            /\ fetched' = NoFetch
            /\ msg' = NoMsg
            /\ UNCHANGED <<pc, attempts, failed>>
         \/ /\ AnyFlag(p)
            /\ \E f \in FetchOutcomes({k \in Keys : PrefGet(p, k)}) :
                 /\ HasRaised(f)
                 /\ fetched' = f
                 /\ pc' = "aborted"
                 /\ msg' = NoMsg
                 /\ UNCHANGED <<idx, attempts, failed, processed>>
         \/ /\ AnyFlag(p)
            /\ \E f \in FetchOutcomes({k \in Keys : PrefGet(p, k)}), ok \in BOOLEAN :
                 LET parts == UserParts(p, f)
                 IN  /\ ~HasRaised(f)
                     /\ fetched' = f
                     /\ IF parts # <<>>
                          THEN /\ msg' = [to |-> uid, flags |-> [k \in Keys |-> PrefGet(p, k)],
                                          text |-> Join(parts, Sep),
                                          outcome |-> IF ok THEN "sent" ELSE "failed"]
                               /\ attempts' = [attempts EXCEPT ![uid] = @ + 1]
                               /\ failed' = IF ok THEN failed ELSE failed \cup {uid}
                               /\ pc' = AfterUserSend(ok)
                               /\ idx' = IF pc' = "users" THEN NextRow(idx, ok) ELSE idx
                               /\ processed' = IF pc' = "users" /\ idx' > idx
                                                 THEN processed \cup {uid} ELSE processed
                          ELSE /\ ok
                               /\ msg' = NoMsg
                               /\ idx' = NextRow(idx, TRUE)
                               /\ processed' = processed \cup {uid}
                               /\ UNCHANGED <<pc, attempts, failed>>
  /\ UNCHANGED <<uiVars, CHANNEL_ID, batch, chan>>

\* Line 408: after the loop, post_channel_summary is awaited.
LoopEnd ==
  /\ pc = "users"
  /\ idx > Len(batch)
  /\ pc' = "channel"
  /\ fetched' = NoFetch
  /\ msg' = NoMsg
  /\ UNCHANGED <<uiVars, CHANNEL_ID, batch, idx, attempts, failed, processed, chan>>

\* postchannel: replies "CHANNEL_ID not set" or awaits post_channel_summary.
Postchannel ==
  /\ Idle
  /\ CHANNEL_ID # ""
  /\ pc' = "channel"
  /\ batch' = <<>>
  /\ idx' = 1
  /\ fetched' = NoFetch
  /\ msg' = NoMsg
  /\ attempts' = [u \in Users |-> 0]
  /\ failed' = {}
  /\ processed' = {}
  /\ chan' = "none"
  /\ UNCHANGED <<uiVars, CHANNEL_ID>>

\* Variant of ChannelParts: sections are appended without the strip() tests.
ChannelPartsUnfiltered(f) ==
  <<<<Title("jobs_au")>> \o FormatJobs(f["jobs_au"].items),
    <<Title("jobs_in")>> \o FormatJobs(f["jobs_in"].items),
    <<Title("ai_tools")>> \o FormatTools(f["ai_tools"].items)>>

\* post_channel_summary, lines 106-118: one part per non-blank content.
ChannelParts(f) ==
  LET au    == FormatJobs(f["jobs_au"].items)
      in_   == FormatJobs(f["jobs_in"].items)
      tools == FormatTools(f["ai_tools"].items)
      p0 == <<>>
      p1 == IF Strip(au) THEN Append(p0, <<Title("jobs_au")>> \o au) ELSE p0
      p2 == IF Strip(in_) THEN Append(p1, <<Title("jobs_in")>> \o in_) ELSE p1
      p3 == IF Strip(tools) THEN Append(p2, <<Title("ai_tools")>> \o tools) ELSE p2
  IN  p3

\* post_channel_summary.
PostChannelSummary ==
  /\ pc = "channel"
  /\ \/ /\ CHANNEL_ID = ""
        /\ chan' = "unconfigured"
        /\ pc' = "done"
        /\ UNCHANGED <<fetched, msg>>
     \/ /\ CHANNEL_ID # ""
        /\ \E f \in FetchOutcomes(Keys) :
             /\ HasRaised(f)
             /\ fetched' = f
             /\ chan' = "raised"
             /\ pc' = "aborted"
             /\ UNCHANGED msg
     \/ /\ CHANNEL_ID # ""
        /\ \E f \in FetchOutcomes(Keys), ok \in BOOLEAN :
             LET parts == ChannelParts(f)
             IN  /\ ~HasRaised(f)
                 /\ fetched' = f
                 /\ pc' = "done"
                 /\ IF parts = <<>>
                      THEN /\ ok
                           /\ chan' = "nothing"
                           /\ UNCHANGED msg
                      ELSE /\ chan' = IF ok THEN "sent" ELSE "failed"
                           /\ msg' = [to |-> CHANNEL_ID, flags |-> AllFalse,
                                      text |-> Join(parts, Sep),
                                      outcome |-> chan']
  /\ UNCHANGED <<uiVars, CHANNEL_ID, batch, idx, attempts, failed, processed>>

\* The handler or job returns (or its exception is logged by the dispatcher).
Finish ==
  /\ pc \in {"done", "aborted"}
  /\ pc' = "idle"
  /\ batch' = <<>>
  /\ idx' = 0
  /\ fetched' = NoFetch
  /\ msg' = NoMsg
  /\ attempts' = [u \in Users |-> 0]
  /\ failed' = {}
  /\ processed' = {}
  /\ chan' = "none"
  /\ UNCHANGED <<uiVars, CHANNEL_ID>>

\* ---------------------------------------------------------- specification

EmptyStore == [u \in {} |-> 0]

Init ==
  /\ db = EmptyStore
  /\ view = NoView
  /\ watched \in Users
  /\ snap = NoSnap
  /\ tog = NoTog
  /\ CHANNEL_ID = "@smartify_jobs"
  /\ pc = "idle"
  /\ batch = <<>>
  /\ idx = 0
  /\ fetched = NoFetch
  /\ msg = NoMsg
  /\ attempts = [u \in Users |-> 0]
  /\ failed = {}
  /\ processed = {}
  /\ chan = "none"
  /\ req = NoReq
  /\ query = NoQuery
  /\ calls = <<>>
  /\ reply = NoReply
  /\ race = NoRace

\* The handlers run() registers for commands and buttons.
Next ==
  \/ \E u \in Users : Start(u) /\ Quiet
  \/ \E u \in Users, cmd \in ContentCommands : ContentCommand(u, cmd) /\ Quiet
  \/ \E u \in Users, args \in ArgLists : Subscribe(u, args) /\ Quiet
  \/ \E u \in Users : Unsubscribe(u) /\ Quiet
  \/ \E u \in Users : OpenSubscribe(u) /\ Quiet
  \/ \E u \in Users : SubNop(u) /\ Quiet
  \/ \E u \in Users : SubClear(u) /\ Quiet
  \/ \E u \in Users : SubDone(u) /\ Quiet
  \/ \E u \in Users, key \in CallbackKeys : SubToggle(u, key) /\ Quiet

Spec == Init /\ [][Next]_vars

\* The digest run, over every store the commands can produce and with or
\* without a configured channel.
DigestInit ==
  /\ db = EmptyStore
  /\ watched = "u1"
  /\ view = NoView
  /\ snap = NoSnap
  /\ tog = NoTog
  /\ CHANNEL_ID \in {"", "@smartify_jobs"}
  /\ pc = "idle"
  /\ batch = <<>>
  /\ idx = 0
  /\ fetched = NoFetch
  /\ msg = NoMsg
  /\ attempts = [u \in Users |-> 0]
  /\ failed = {}
  /\ processed = {}
  /\ chan = "none"
  /\ req = NoReq
  /\ query = NoQuery
  /\ calls = <<>>
  /\ reply = NoReply
  /\ race = NoRace

DigestNext ==
  \/ \E u \in Users, cmd \in ContentCommands : ContentCommand(u, cmd) /\ Quiet
  \/ \E u \in Users, args \in ArgLists \ {<<>>} : Subscribe(u, args) /\ Quiet
  \/ \E u \in Users : Unsubscribe(u) /\ Quiet
  \/ StartRun /\ Quiet
  \/ UserStep /\ Quiet
  \/ LoopEnd /\ Quiet
  \/ Postchannel /\ Quiet
  \/ PostChannelSummary /\ Quiet
  \/ Finish /\ Quiet

DigestSpec == DigestInit /\ [][DigestNext]_vars

\* ------------------------------------------- properties: toggle session

\* C1: after open, any sequence of toggles and then done, the persisted flags
\* of the user equal the working snapshot (the flags stored at open with
\* every key toggled an odd number of times flipped).
C1_DonePersistsSnapshot ==
  (view.kind = "saved" /\ snap.valid)
    => PrefsOf(db, watched) = snap.prefs

\* C2: a second consecutive toggle of the same key by the same user renders
\* the view that was shown before the first of the two toggles.
C2_DoubleToggleRestoresView ==
  [][\A k \in Keys :
       (SubToggle(watched, k) /\ tog.valid /\ tog.key = k)
         => view' = tog.before]_vars

\* C3: toggle, noop and open (by button or by /subscribe without arguments)
\* leave the whole preference store as it was.
C3_ToggleNopOpenKeepStore ==
  [][(\E u \in Users :
        \/ OpenSubscribe(u)
        \/ Subscribe(u, <<>>)
        \/ SubNop(u)
        \/ \E k \in CallbackKeys : SubToggle(u, k))
       => db' = db]_vars

\* A toggle of the watched user has acted: the view shows the toggled flag on
\* while the store still holds it off.
C3_Witness ==
  /\ tog.valid
  /\ tog.key \in Keys
  /\ view.kind = "keyboard"
  /\ view.marks[tog.key] = "on"
  /\ ~PrefsOf(db, watched)[tog.key]

\* C4: clear (the button or /unsubscribe) stores all three flags false for
\* the acting user whatever was stored or shown before, keeps every other
\* user's record, and changes nothing when the flags are already all false.
C4_ClearAllFalse ==
  [][\A u \in Users :
       (SubClear(u) \/ Unsubscribe(u))
         => /\ DOMAIN db' = (DOMAIN db) \cup {u}
            /\ db'[u].prefs = [jobs_au |-> FALSE, jobs_in |-> FALSE, ai_tools |-> FALSE]
            /\ db'[u].tz = GetUser(db, u).tz
            /\ \A v \in (DOMAIN db) \ {u} : db'[v] = db[v]
            /\ (u \in DOMAIN db /\ \A k \in Keys : ~db[u].prefs[k]) => db' = db]_vars

\* The clear button has acted for the watched user, whose flags are all false
\* in the store, while another user's record still holds an enabled flag.
C4_Witness ==
  /\ view.kind = "unsubscribed"
  /\ watched \in DOMAIN db
  /\ \A k \in Keys : ~db[watched].prefs[k]
  /\ \E v \in (DOMAIN db) \ {watched} : \E k \in Keys : db[v].prefs[k]

\* ---------------------------------------------- properties: digest run

\* The sections of a message text: the runs of tokens between separators.
RECURSIVE SplitAt(_, _, _)
SplitAt(text, cur, acc) ==
  IF text = <<>> THEN Append(acc, cur)
  ELSE IF Head(text) = Sep THEN SplitAt(Tail(text), <<>>, Append(acc, cur))
  ELSE SplitAt(Tail(text), Append(cur, Head(text)), acc)

Sections(text) == SplitAt(text, <<>>, <<>>)

\* The section a message should hold for key k given what was fetched.
SectionFor(k) == <<Title(k)>> \o Format(k, fetched[k].items)

\* Whether a text holds a section titled for key k.
HasSection(text, k) == \E i \in 1..Len(text) : text[i] = Title(k)

\* The users of the rows at positions lo..hi of the batch.
RowUsers(lo, hi) == {batch[i].user_id : i \in lo..hi}

\* A delivery to a user was attempted by the step that ran last.
UserDelivery == msg.to \in Users

\* C5: a failed delivery to a user never ends the run: only a provider
\* exception does; every user up to the loop position has been processed,
\* those whose delivery failed included, every user of the batch has been
\* once the loop is over, and the run ends only after the channel step.
C5_DeliveryFailureKeepsRunGoing ==
  /\ pc = "aborted" => HasRaised(fetched)
  /\ failed \subseteq processed
  /\ pc = "users" => processed = RowUsers(1, idx - 1)
  /\ pc \in {"channel", "done"} => processed = RowUsers(1, Len(batch))
  /\ pc = "done" => chan # "none"

\* A delivery to the first user of the batch failed, the second user was
\* still delivered to, and the channel post was sent.
C5_Witness ==
  /\ pc = "done"
  /\ Len(batch) = 2
  /\ batch[1].user_id \in failed
  /\ attempts[batch[2].user_id] = 1
  /\ batch[2].user_id \notin failed
  /\ chan = "sent"

\* C6: a provider call that raises never ends the run.
C6_ProviderFailureKeepsRunGoing ==
  HasRaised(fetched) => pc # "aborted"

\* C7: a message delivered to a user holds a section only for a flag that is
\* true and whose formatted content is not empty.
C7_OnlyNonEmptySections ==
  UserDelivery =>
    \A k \in Keys :
      HasSection(msg.text, k) =>
        /\ PrefGet(PrefsOf(db, msg.to), k)
        /\ Strip(Format(k, fetched[k].items))

\* C8: when every enabled flag of a user has non-empty content, the user's
\* message is exactly one section per enabled flag, in the order AU jobs,
\* India jobs, AI tools, joined by the separator.
C8_SectionsInFixedOrder ==
  LET p      == PrefsOf(db, msg.to)
      wanted == SelectSeq(KeyOrder, LAMBDA k : PrefGet(p, k))
      secs   == Sections(msg.text)
  IN  (UserDelivery /\ \A k \in Keys : PrefGet(p, k) => fetched[k].items # <<>>)
        => /\ Len(secs) = Len(wanted)
           /\ \A i \in 1..Len(wanted) : secs[i] = SectionFor(wanted[i])

\* A user with jobs_au and ai_tools enabled and jobs_in disabled was sent a
\* message of two sections, both with content.
C8_Witness ==
  /\ UserDelivery
  /\ msg.outcome = "sent"
  /\ PrefsOf(db, msg.to) = [jobs_au |-> TRUE, jobs_in |-> FALSE, ai_tools |-> TRUE]
  /\ fetched["jobs_au"].items # <<>>
  /\ fetched["ai_tools"].items # <<>>
  /\ Len(Sections(msg.text)) = 2

\* C9: in a run no delivery is attempted to a user whose flags are all
\* false, and at most one delivery is attempted per user.
C9_NoDeliveryWithoutFlags ==
  \A u \in Users :
    /\ attempts[u] <= 1
    /\ ~AnyFlag(PrefsOf(db, u)) => attempts[u] = 0

\* A finished run over two stored users: one with all flags false and no
\* delivery, the other with one delivery.
C9_Witness ==
  /\ pc = "done"
  /\ \E u, v \in DOMAIN db :
       /\ ~AnyFlag(db[u].prefs)
       /\ attempts[u] = 0
       /\ u \in processed
       /\ attempts[v] = 1

\* C10: once post_channel_summary has returned, a message was sent to the
\* channel exactly when a channel is configured and some fetched content is
\* non-empty, and it then holds exactly the non-empty sections in the order
\* AU, IN, AI tools, whatever the users' flags are.
C10_ChannelBroadcast ==
  LET nonempty  == SelectSeq(KeyOrder, LAMBDA k : fetched[k].items # <<>>)
      attempted == chan \in {"sent", "failed"}
      secs      == Sections(msg.text)
  IN  chan \in {"unconfigured", "nothing", "sent", "failed"} =>
        /\ attempted <=> (CHANNEL_ID # "" /\ nonempty # <<>>)
        /\ attempted =>
             /\ msg.to = CHANNEL_ID
             /\ Len(secs) = Len(nonempty)
             /\ \A i \in 1..Len(nonempty) : secs[i] = SectionFor(nonempty[i])

\* Only the AI tools content was non-empty and a one-section message was
\* sent to the channel, at the end of a run over users that have flags set.
C10_Witness ==
  /\ chan = "sent"
  /\ fetched["jobs_au"] = Returned(0)
  /\ fetched["jobs_in"] = Returned(0)
  /\ fetched["ai_tools"].items # <<>>
  /\ Len(Sections(msg.text)) = 1
  /\ \E u \in DOMAIN db : db[u].prefs["jobs_au"]

\* ------------------------------------------------------------ query text

\* Text is a sequence of one-character strings.  Letters that occur in the
\* model, as <<lower, upper>>.
CasePairs ==
  { <<"a", "A">>, <<"b", "B">>, <<"c", "C">>, <<"d", "D">>, <<"e", "E">>,
    <<"i", "I">>, <<"l", "L">>, <<"n", "N">>, <<"o", "O">>, <<"p", "P">>,
    <<"r", "R">>, <<"s", "S">>, <<"t", "T">>, <<"u", "U">>, <<"v", "V">>,
    <<"x", "X">>, <<"f", "F">>, <<"w", "W">>, <<"g", "G">> }

Letters == {p[1] : p \in CasePairs} \cup {p[2] : p \in CasePairs}

\* str.lower / str.upper on one character.
LowerChar(c) ==
  IF \E p \in CasePairs : p[2] = c
    THEN (CHOOSE p \in CasePairs : p[2] = c)[1] ELSE c

UpperChar(c) ==
  IF \E p \in CasePairs : p[1] = c
    THEN (CHOOSE p \in CasePairs : p[1] = c)[2] ELSE c

LowerText(t) == [i \in 1..Len(t) |-> LowerChar(t[i])]

UpperText(t) == [i \in 1..Len(t) |-> UpperChar(t[i])]

\* \s of the regular expressions, and what str.strip removes.
SpaceChars == {" "}

IsSpace(c) == c \in SpaceChars

\* str.strip(): leading and trailing whitespace removed.
Trim(t) ==
  LET keep == {i \in 1..Len(t) : ~IsSpace(t[i])}
  IN  IF keep = {} THEN <<>>
      ELSE LET lo == CHOOSE i \in keep : \A j \in keep : i <= j
               hi == CHOOSE i \in keep : \A j \in keep : j <= i
           IN  SubSeq(t, lo, hi)

\* str.startswith
StartsWith(t, prefix) ==
  Len(t) >= Len(prefix) /\ SubSeq(t, 1, Len(prefix)) = prefix

\* Variant of AfterFirstEquals: a.split("=")[-1], the text after the last "=".
AfterLastEquals(a) ==
  LET at == CHOOSE i \in 1..Len(a) :
              a[i] = "=" /\ \A j \in (i + 1)..Len(a) : a[j] # "="
  IN  SubSeq(a, at + 1, Len(a))

\* a.split("=", 1)[1]: the text after the first "=".
AfterFirstEquals(a) ==
  LET at == CHOOSE i \in 1..Len(a) :
              a[i] = "=" /\ \A j \in 1..(i - 1) : a[j] # "="
  IN  SubSeq(a, at + 1, Len(a))

W_au == <<"a", "u">>

W_in == <<"i", "n">>

W_loc == <<"l", "o", "c", "=">>

\* "software engineer", the keyword of a query that names none.
DefaultKeyword ==
  <<"s", "o", "f", "t", "w", "a", "r", "e", " ",
    "e", "n", "g", "i", "n", "e", "e", "r">>

SomeLocation(t) == [some |-> TRUE, val |-> t]

\* The loop of parse_jobs_args over the remaining arguments.
RECURSIVE ParseJobsLoop(_, _, _, _)
ParseJobsLoop(args, country, location, tokens) ==
  IF args = <<>>
    THEN [country |-> country, location |-> location, tokens |-> tokens]
    ELSE LET a  == Head(args)
             al == LowerText(a)
         IN  IF al \in {W_au, W_in}
               THEN ParseJobsLoop(Tail(args), UpperText(al), location, tokens)
             ELSE IF StartsWith(al, W_loc)
               THEN ParseJobsLoop(Tail(args), country,
                                  SomeLocation(AfterFirstEquals(a)), tokens)
             ELSE ParseJobsLoop(Tail(args), country, location,
                                Append(tokens, a))

\* Variant of parse_jobs_args: the joined tokens are returned as they are,
\* without the "software engineer" fallback.
parse_jobs_args_no_default(args) ==
  LET r  == ParseJobsLoop(args, <<"A", "U">>, NoLocation, <<>>)
      kw == Trim(Join(r.tokens, " "))
  IN  [parsed   |-> TRUE,
       keyword  |-> kw,
       country  |-> r.country,
       location |-> r.location,
       bare     |-> kw,
       rest     |-> kw]

\* parse_jobs_args(args) -> (keyword, country, location)
parse_jobs_args(args) ==
  LET r  == ParseJobsLoop(args, <<"A", "U">>, NoLocation, <<>>)
      kw == Trim(Join(r.tokens, " "))
  IN  [parsed   |-> TRUE,
       keyword  |-> IF kw = <<>> THEN DefaultKeyword ELSE kw,
       country  |-> r.country,
       location |-> r.location,
       bare     |-> kw,
       rest     |-> kw]

\* Arguments a /jobs command can carry: context.args holds the
\* whitespace-separated words of the message, none of them empty.
JobTokens ==
  { <<"a", "u">>, <<"I", "N">>, <<"a", "u", "s">>, <<"d", "e", "v">>,
    <<"O", "p", "s">>, <<"l", "o", "c", "=", "P", "u", "n", "e">>,
    <<"L", "O", "C", "=", "a", "=", "b">>, <<"l", "o", "c", "=">> }

RECURSIVE SeqsUpTo(_, _)
SeqsUpTo(S, n) ==
  IF n = 0 THEN {<<>>}
  ELSE LET shorter == SeqsUpTo(S, n - 1)
       IN  shorter \cup {Append(q, x) : q \in shorter, x \in S}

JobArgLists == SeqsUpTo(JobTokens, MaxArgs)

\* [,\.;:] of line 51.
PunctChars == {",", ".", ";", ":"}

Digits == {"0", "1", "2", "3", "4", "5", "6", "7", "8", "9"}

\* \w of the regular expressions; \b lies between a \w and a non-\w position.
IsWordChar(c) == c \in Letters \cup Digits \cup {"_"}

\* [A-Za-z\s] of the loc= pattern.
IsLocChar(c) == c \in Letters \/ IsSpace(c)

\* re.sub(r"<class>+", " ", t): every maximal run of the class becomes one
\* space.
SquashRuns(t, class) ==
  LET first == SelectSeq([i \in 1..Len(t) |-> i],
                         LAMBDA i : \/ t[i] \notin class
                                    \/ i = 1
                                    \/ t[i - 1] \notin class)
  IN  [k \in 1..Len(first) |->
         IF t[first[k]] \in class THEN " " ELSE t[first[k]]]

WordAt(t, j) == j \in 1..Len(t) /\ IsWordChar(t[j])

\* \b before position i.
Boundary(t, i) == WordAt(t, i - 1) # WordAt(t, i)

\* Length of the match of \b(w1|w2|...)\b at position i under re.I, the
\* alternatives tried in order; 0 for no match.
RECURSIVE WordMatchLen(_, _, _)
WordMatchLen(t, i, words) ==
  IF words = <<>> THEN 0
  ELSE LET w == Head(words)
           e == i + Len(w)
       IN  IF /\ e - 1 <= Len(t)
              /\ Boundary(t, i)
              /\ LowerText(SubSeq(t, i, e - 1)) = w
              /\ Boundary(t, e)
             THEN Len(w)
             ELSE WordMatchLen(t, i, Tail(words))

\* re.search(r"\b(...)\b", t, flags=re.I)
HasWord(t, words) == \E i \in 1..Len(t) : WordMatchLen(t, i, words) > 0

\* re.sub(r"\b(...)\b", "", t, flags=re.I): matches are taken left to right.
RECURSIVE RemoveWordsFrom(_, _, _)
RemoveWordsFrom(t, i, words) ==
  IF i > Len(t) THEN <<>>
  ELSE LET n == WordMatchLen(t, i, words)
       IN  IF n > 0 THEN RemoveWordsFrom(t, i + n, words)
           ELSE <<t[i]>> \o RemoveWordsFrom(t, i + 1, words)

RemoveWords(t, words) == RemoveWordsFrom(t, 1, words)

\* Length of the greedy match of loc=([A-Za-z\s]+) at position i; 0 for none.
LocMatchLen(t, i) ==
  IF /\ i + 4 <= Len(t)
     /\ SubSeq(t, i, i + 3) = W_loc
     /\ IsLocChar(t[i + 4])
    THEN LET stop == {j \in (i + 4)..(Len(t) + 1) :
                        j = Len(t) + 1 \/ ~IsLocChar(t[j])}
             e == CHOOSE j \in stop : \A k \in stop : j <= k
         IN  e - i
    ELSE 0

HasLoc(t) == \E i \in 1..Len(t) : LocMatchLen(t, i) > 0

\* m.group(1) of the leftmost match.
LocGroup(t) ==
  LET at == CHOOSE i \in 1..Len(t) :
              /\ LocMatchLen(t, i) > 0
              /\ \A j \in 1..(i - 1) : LocMatchLen(t, j) = 0
  IN  SubSeq(t, at + 4, at + LocMatchLen(t, at) - 1)

\* re.sub(r"loc=[A-Za-z\s]+", "", t)
RECURSIVE RemoveLocFrom(_, _)
RemoveLocFrom(t, i) ==
  IF i > Len(t) THEN <<>>
  ELSE LET n == LocMatchLen(t, i)
       IN  IF n > 0 THEN RemoveLocFrom(t, i + n)
           ELSE <<t[i]>> \o RemoveLocFrom(t, i + 1)

AuWords == << <<"a", "u">>, <<"a", "u", "s", "t", "r", "a", "l", "i", "a">> >>

IndiaWords == << <<"i", "n", "d", "i", "a">> >>

CountryAU == <<"A", "U">>

CountryIN == <<"I", "N">>

\* Lines 49-51: the text stripped, punctuation runs and whitespace runs
\* collapsed to single spaces, stripped again.
Normalise(text) ==
  Trim(SquashRuns(SquashRuns(Trim(text), PunctChars), SpaceChars))

\* Variant of DetectCountry: "india" is looked for only when neither "au" nor
\* "australia" was found.
DetectCountryElse(t) ==
  IF HasWord(t, AuWords) THEN CountryAU
  ELSE IF HasWord(t, IndiaWords) THEN CountryIN ELSE CountryAU

\* Lines 53-61: the country the words of t name.
DetectCountry(t) ==
  LET afterAu == IF HasWord(t, AuWords) THEN RemoveWords(t, AuWords) ELSE t
  IN  IF HasWord(afterAu, IndiaWords) THEN CountryIN ELSE CountryAU

\* Lines 56-61: t without the country words.
StripCountries(t) ==
  LET afterAu == IF HasWord(t, AuWords) THEN RemoveWords(t, AuWords) ELSE t
  IN  IF HasWord(afterAu, IndiaWords)
        THEN RemoveWords(afterAu, IndiaWords) ELSE afterAu

\* Lines 63-66: t is stripped only where a loc= match was removed.
StripLocation(t) ==
  IF HasLoc(t) THEN Trim(RemoveLocFrom(t, 1)) ELSE t

\* parse_free_text_to_query(text) -> (keyword, country, location)
parse_free_text_to_query(text) ==
  LET t    == Normalise(text)
      bare == StripCountries(t)
      kw   == StripLocation(bare)
  IN  [parsed   |-> TRUE,
       keyword  |-> IF kw = <<>> THEN DefaultKeyword ELSE kw,
       country  |-> DetectCountry(t),
       location |-> IF HasLoc(bare) THEN SomeLocation(Trim(LocGroup(bare)))
                    ELSE NoLocation,
       bare     |-> bare,
       rest     |-> IF HasLoc(bare) THEN RemoveLocFrom(bare, 1) ELSE bare]

\* Pieces the free-text messages of the model are made of.
TextPieces ==
  { <<"a", "u">>, <<"A", "u", "s", "t", "r", "a", "l", "i", "a">>,
    <<"I", "n", "d", "i", "a">>, <<"d", "e", "v">>, <<" ">>, <<",">>,
    <<"-">>, <<"l", "o", "c", "=">>,
    <<"l", "o", "c", "=", "P", "u", "n", "e">> }

\* "".join(pieces)
RECURSIVE Concat(_)
Concat(pieces) ==
  IF pieces = <<>> THEN <<>> ELSE Head(pieces) \o Concat(Tail(pieces))

\* update.message.text of a plain-text message: never blank.
Texts ==
  {t \in {Concat(ps) : ps \in SeqsUpTo(TextPieces, MaxPieces)} :
     Trim(t) # <<>>}

\* Variant of OtherCountry: the retry asks for the same country again.
SameCountry(cc) == IF cc = CountryAU THEN CountryAU ELSE CountryIN

\* try_cc = "IN" if cc == "AU" else "AU"
OtherCountry(cc) == IF cc = CountryAU THEN CountryIN ELSE CountryAU

\* A provider call made by a search handler.
Call(q, cc, out) ==
  [keyword |-> q.keyword, country |-> cc, location |-> q.location,
   out |-> out]

\* jobs: the parsed query goes to get_jobs once and the reply names it.  An
\* exception of get_jobs leaves the handler before any reply.
Jobs(u, args) ==
  \E q \in {parse_jobs_args(args)} :
      /\ Idle
      /\ req' = [cmd |-> "jobs", user |-> u, args |-> args, text |-> <<>>,
                 before |-> PrefsOf(db, u)]
      /\ query' = q
      /\ \E out \in ProviderResults :
           /\ calls' = <<Call(q, q.country, out)>>
           /\ reply' = IF out.status = "raised"
                         THEN [kind |-> "error", country |-> <<>>, found |-> 0]
                         ELSE [kind |-> "jobs", country |-> q.country,
                               found |-> Len(out.items)]
      /\ EndSession(u) /\ EndToggles(u)
      /\ UNCHANGED <<db, view, watched, CHANNEL_ID, runVars>>

\* The application takes the next update once the handler has returned.
Awaiting == req.cmd = "none"

NextUpdate ==
  /\ ~Awaiting
  /\ req' = NoReq
  /\ query' = NoQuery
  /\ calls' = <<>>
  /\ reply' = NoReply
  /\ UNCHANGED <<uiVars, CHANNEL_ID, runVars>>

\* text_search: the detected country is queried first and the other country
\* only when that returned nothing; the reply names the country whose results
\* it shows.
TextSearch(u, text) ==
  \E q \in {parse_free_text_to_query(text)} :
  LET try_cc == OtherCountry(q.country)
  IN  /\ Idle
      /\ req' = [cmd |-> "text", user |-> u, args |-> <<>>, text |-> text,
                 before |-> PrefsOf(db, u)]
      /\ query' = q
      /\ \E first \in ProviderResults :
           IF first.status = "raised"
             THEN /\ calls' = <<Call(q, q.country, first)>>
                  /\ reply' = [kind |-> "error", country |-> <<>>, found |-> 0]
           ELSE IF first.items # <<>>
             THEN /\ calls' = <<Call(q, q.country, first)>>
                  /\ reply' = [kind |-> "search", country |-> q.country,
                               found |-> Len(first.items)]
           ELSE \E second \in ProviderResults :
                  /\ calls' = <<Call(q, q.country, first),
                                Call(q, try_cc, second)>>
                  /\ reply' =
                       IF second.status = "raised"
                         THEN [kind |-> "error", country |-> <<>>, found |-> 0]
                       ELSE IF second.items # <<>>
                         THEN [kind |-> "search", country |-> try_cc,
                               found |-> Len(second.items)]
                       ELSE [kind |-> "search", country |-> q.country,
                             found |-> 0]
      /\ EndSession(u) /\ EndToggles(u)
      /\ UNCHANGED <<db, view, watched, CHANNEL_ID, runVars>>

\* No chat is observed here: the keyboard message of no user is followed.
CommandInit ==
  /\ db = EmptyStore
  /\ watched = "-"
  /\ view = NoView
  /\ snap = NoSnap
  /\ tog = NoTog
  /\ CHANNEL_ID = "@smartify_jobs"
  /\ pc = "idle"
  /\ batch = <<>>
  /\ idx = 0
  /\ fetched = NoFetch
  /\ msg = NoMsg
  /\ attempts = [u \in Users |-> 0]
  /\ failed = {}
  /\ processed = {}
  /\ chan = "none"
  /\ req = NoReq
  /\ query = NoQuery
  /\ calls = <<>>
  /\ reply = NoReply
  /\ race = NoRace

\* The search handlers over every argument list and text of the model.
SearchNext ==
  \/ Awaiting /\ \E u \in Users, args \in JobArgLists : Jobs(u, args)
  \/ Awaiting /\ \E u \in Users, text \in Texts : TextSearch(u, text)
  \/ NextUpdate

SearchSpec == CommandInit /\ [][SearchNext]_vars

\* ------------------------------------------------- properties: free text

\* The keyword the free-text parser is said to return: the remainder trimmed,
\* and the default when nothing remains.
TrimmedKeyword(rest) ==
  IF Trim(rest) = <<>> THEN DefaultKeyword ELSE Trim(rest)

\* C11: the keyword of a free-text query is the text that remains after the
\* country words and the loc= match are removed, trimmed of leading and
\* trailing whitespace, and "software engineer" when that is empty.
C11_KeywordTrimmedOrDefault ==
  req.cmd = "text" => query.keyword = TrimmedKeyword(query.rest)

\* ------------------------------------------------- properties: /jobs args

\* The argument is a country token: "au" or "in" in any case.
IsCountryToken(a) == LowerText(a) \in {W_au, W_in}

\* The argument is a location token: it starts with "loc=" in any case.
IsLocToken(a) == Len(a) >= 4 /\ LowerText(SubSeq(a, 1, 4)) = W_loc

\* The arguments that are neither, in their order.
KeywordTokens(args) ==
  SelectSeq(args, LAMBDA a : ~IsCountryToken(a) /\ ~IsLocToken(a))

\* The last of the positions at; 0 when there is none.
LastOf(at) == IF at = {} THEN 0 ELSE CHOOSE i \in at : \A j \in at : j <= i

\* The last position of args holding a country token; 0 when there is none.
LastCountry(args) == LastOf({i \in 1..Len(args) : IsCountryToken(args[i])})

\* The last position of args holding a location token; 0 when there is none.
LastLoc(args) == LastOf({i \in 1..Len(args) : IsLocToken(args[i])})

\* C12: for every argument list the /jobs parser returns a result whose
\* keyword is not empty and whose country is exactly "AU" or "IN"; with no
\* keyword token the keyword is "software engineer", with no country token
\* the country is "AU".
C12_JobsArgsTotal ==
  req.cmd = "jobs" =>
    /\ query.parsed
    /\ query.keyword # <<>>
    /\ query.country \in {CountryAU, CountryIN}
    /\ KeywordTokens(req.args) = <<>> => query.keyword = DefaultKeyword
    /\ LastCountry(req.args) = 0 => query.country = CountryAU

\* A /jobs command whose arguments are all country and location tokens got
\* the default keyword.
C12_Witness ==
  /\ req.cmd = "jobs"
  /\ Len(req.args) >= 2
  /\ KeywordTokens(req.args) = <<>>
  /\ query.keyword = DefaultKeyword
  /\ query.country = CountryIN

\* C13: the country is the upper-cased last "au"/"in" token, the location is
\* what follows "loc=" in the last location token, untrimmed, and the keyword
\* is every other token in its order and case joined by single spaces, so no
\* country or location token is part of it.
C13_JobsArgsClassified ==
  req.cmd = "jobs" =>
    LET args == req.args
        c    == LastCountry(args)
        l    == LastLoc(args)
        kws  == KeywordTokens(args)
    IN  /\ c > 0 => /\ query.country \in {CountryAU, CountryIN}
                    /\ LowerText(query.country) = LowerText(args[c])
        /\ IF l > 0
             THEN /\ query.location.some
                  /\ query.location.val = SubSeq(args[l], 5, Len(args[l]))
             ELSE query.location = NoLocation
        /\ kws # <<>> =>
             /\ Len(query.keyword) = Len(kws) - 1 + Len(Concat(kws))
             /\ \A i \in 1..Len(kws) :
                  LET from == Len(Concat(SubSeq(kws, 1, i - 1))) + i
                  IN  /\ SubSeq(query.keyword, from, from + Len(kws[i]) - 1)
                           = kws[i]
                      /\ i < Len(kws) =>
                           query.keyword[from + Len(kws[i])] = " "

\* A /jobs command with two different country tokens, where the later one
\* won, and a location token whose value itself holds an "=".
C13_Witness ==
  /\ req.cmd = "jobs"
  /\ \E i, j \in 1..Len(req.args) :
       /\ i < j
       /\ IsCountryToken(req.args[i]) /\ IsCountryToken(req.args[j])
       /\ LowerText(req.args[i]) # LowerText(req.args[j])
       /\ LowerText(query.country) = LowerText(req.args[j])
  /\ \E i \in 1..Len(req.args) :
       /\ IsLocToken(req.args[i])
       /\ "=" \in {query.location.val[k] : k \in 1..Len(query.location.val)}

\* ---------------------------------------------- properties: country words

\* t holds w as a whole word, in any case: no word character on either side.
ContainsWord(t, w) ==
  \E i \in 1..(Len(t) - Len(w) + 1) :
    /\ LowerText(SubSeq(t, i, i + Len(w) - 1)) = w
    /\ i = 1 \/ ~IsWordChar(t[i - 1])
    /\ i + Len(w) > Len(t) \/ ~IsWordChar(t[i + Len(w)])

CountryWords ==
  { <<"a", "u">>, <<"a", "u", "s", "t", "r", "a", "l", "i", "a">>,
    <<"i", "n", "d", "i", "a">> }

\* C14: a text holding the whole word "india" yields IN whether or not it
\* also holds "au" or "australia"; every other text yields AU; and no matched
\* country word is left in the text the keyword is taken from.
C14_LastCountryWins ==
  req.cmd = "text" =>
    /\ query.country = IF ContainsWord(req.text, <<"i", "n", "d", "i", "a">>)
                         THEN CountryIN ELSE CountryAU
    /\ \A w \in CountryWords : ~ContainsWord(query.bare, w)
    /\ ~query.location.some =>
         \A w \in CountryWords : ~ContainsWord(query.keyword, w)

\* A text naming India and then, as its last word, "au": it came out as IN.
C14_Witness ==
  /\ req.cmd = "text"
  /\ ContainsWord(req.text, <<"i", "n", "d", "i", "a">>)
  /\ ContainsWord(req.text, <<"a", "u">>)
  /\ ContainsWord(SubSeq(req.text, Len(req.text) - 1, Len(req.text)),
                  <<"a", "u">>)
  /\ query.country = CountryIN

\* ---------------------------------------------- properties: text search

\* The provider call returned an empty list.
CameBackEmpty(call) == call.out.status = "ok" /\ call.out.items = <<>>

\* C20: free-text search asks the provider for the detected country first and
\* for the other country only when that returned nothing; the reply names the
\* other country exactly when the first call came back empty and the second
\* did not, and the detected country otherwise; no message costs more than
\* two provider calls.
C20_FallbackCountry ==
  req.cmd = "text" =>
    /\ Len(calls) \in {1, 2}
    /\ calls[1].country = query.country
    /\ Len(calls) = 2 <=> CameBackEmpty(calls[1])
    /\ Len(calls) = 2 =>
         calls[2].country \in {CountryAU, CountryIN} \ {query.country}
    /\ \A i \in 1..Len(calls) :
         /\ calls[i].keyword = query.keyword
         /\ calls[i].location = query.location
    /\ reply.kind = "search" =>
         reply.country =
           IF Len(calls) = 2 /\ calls[2].out.items # <<>>
             THEN calls[2].country ELSE query.country

\* A search whose detected country had nothing and whose other country had
\* results: the reply names the other country.
C20_Witness ==
  /\ req.cmd = "text"
  /\ reply.kind = "search"
  /\ Len(calls) = 2
  /\ reply.found > 0
  /\ reply.country # query.country
  /\ query.country = CountryIN

\* ------------------------------------------------------------------ settz

\* Names zoneinfo.ZoneInfo accepts; any other name raises.
ValidZones == {"Australia/Melbourne", "Asia/Kolkata"}

\* context.args of a /settz command.
SettzArgLists ==
  { <<>>, <<"Asia/Kolkata">>, <<"Mars/Phobos">>,
    <<"Australia/Melbourne", "please">> }

\* The reply of a handler that ran no search.
Said(kind) == [kind |-> kind, country |-> <<>>, found |-> 0]

\* The update a command or button handler has just handled.
Noted(cmd, u, args) ==
  /\ req' = [cmd |-> cmd, user |-> u, args |-> args, text |-> <<>>,
             before |-> PrefsOf(db, u)]
  /\ query' = NoQuery
  /\ calls' = <<>>

\* Variant of SettzWrite: the flags are written back as all false with the
\* zone.
SettzWriteResets(d, u, tz_str) == UpsertUser(d, u, AllFalse, tz_str)

\* upsert_user(update.effective_user.id, tz=tz_str)
SettzWrite(d, u, tz_str) == UpsertUser(d, u, NoPrefs, tz_str)

\* settz: without an argument or with a name ZoneInfo rejects, a message and
\* nothing else; otherwise the zone is stored.
Settz(u, args) ==
  /\ Idle
  /\ Noted("settz", u, args)
  /\ IF args = <<>>
       THEN reply' = Said("tz_usage") /\ UNCHANGED db
     ELSE IF args[1] \notin ValidZones
       THEN reply' = Said("tz_invalid") /\ UNCHANGED db
     ELSE /\ db' = SettzWrite(db, u, args[1])
          /\ reply' = Said("tz_set")
  /\ EndSession(u) /\ EndToggles(u)
  /\ UNCHANGED <<view, watched, CHANNEL_ID, runVars>>

\* ---------------------------------------------- the command specification

\* A handler of the earlier sections together with the note of its update
\* and its reply.
Replied(cmd, u, args, kind) == Noted(cmd, u, args) /\ reply' = Said(kind)

\* /jobs arguments and plain texts the command specification draws from.
JobArgSamples == { <<>>, << <<"I", "N">>, <<"d", "e", "v">> >> }

TextSamples == { <<"d", "e", "v">>, <<"I", "n", "d", "i", "a">> }

\* Every command and button that reads or writes the store, and the two
\* searches, one update at a time.
CommandNext ==
  \/ Awaiting /\ \E u \in Users :
       Start(u) /\ Replied("start", u, <<>>, "welcome")
  \/ Awaiting /\ \E u \in Users, cmd \in ContentCommands :
       ContentCommand(u, cmd) /\ Replied(cmd, u, <<>>, "content")
  \/ Awaiting /\ \E u \in Users, args \in ArgLists :
       /\ Subscribe(u, args)
       /\ Replied("subscribe", u, args,
                  IF args = <<>> THEN "keyboard" ELSE "subscribed")
  \/ Awaiting /\ \E u \in Users :
       Unsubscribe(u) /\ Replied("unsubscribe", u, <<>>, "unsubscribed")
  \/ Awaiting /\ \E u \in Users, args \in SettzArgLists : Settz(u, args)
  \/ Awaiting /\ \E u \in Users :
       OpenSubscribe(u) /\ Replied("open", u, <<>>, "keyboard")
  \/ Awaiting /\ \E u \in Users :
       SubNop(u) /\ Replied("nop", u, <<>>, "none")
  \/ Awaiting /\ \E u \in Users :
       SubClear(u) /\ Replied("clear", u, <<>>, "unsubscribed")
  \/ Awaiting /\ \E u \in Users :
       SubDone(u) /\ Replied("done", u, <<>>, "saved")
  \/ Awaiting /\ \E u \in Users, key \in CallbackKeys :
       SubToggle(u, key) /\ Replied("toggle", u, <<key>>, "keyboard")
  \/ Awaiting /\ \E u \in Users, args \in JobArgSamples : Jobs(u, args)
  \/ Awaiting /\ \E u \in Users, text \in TextSamples : TextSearch(u, text)
  \/ NextUpdate

CommandSpec == CommandInit /\ [][CommandNext]_vars

\* ------------------------------------------------------ properties: settz

\* C15: /settz with no argument or with a name that is no timezone answers
\* with a message and leaves the store as it was; with a valid name it writes
\* that zone to the user's record and leaves the user's three flags, and
\* every other record, unchanged.
C15_SettzWritesZoneOnly ==
  [][\A u \in Users, args \in SettzArgLists :
       Settz(u, args) =>
         IF args = <<>> \/ args[1] \notin ValidZones
           THEN /\ db' = db
                /\ reply'.kind \in {"tz_usage", "tz_invalid"}
           ELSE /\ DOMAIN db' = (DOMAIN db) \cup {u}
                /\ db'[u].tz = args[1]
                /\ db'[u].prefs = PrefsOf(db, u)
                /\ \A x \in (DOMAIN db) \ {u} : db'[x] = db[x]
                /\ reply'.kind = "tz_set"]_vars

\* A user with an enabled flag has just set a zone and still has the flag.
C15_Witness ==
  /\ req.cmd = "settz"
  /\ reply.kind = "tz_set"
  /\ req.user \in DOMAIN db
  /\ db[req.user].tz = "Asia/Kolkata"
  /\ db[req.user].prefs = req.before
  /\ req.before["jobs_in"]

\* -------------------------------------------------- properties: subscribe

\* The flag an argument of /subscribe names, whatever its case.
FlagNamedBy(a) ==
  CASE a \in {"jobs_au", "JOBS_AU", "Jobs_Au"}    -> "jobs_au"
    [] a \in {"jobs_in", "JOBS_IN", "Jobs_In"}    -> "jobs_in"
    [] a \in {"ai_tools", "AI_TOOLS", "Ai_Tools"} -> "ai_tools"
    [] OTHER -> "none"

\* Every record but u's is as it was.
OthersKept(u) ==
  /\ DOMAIN db' = (DOMAIN db) \cup {u}
  /\ \A x \in (DOMAIN db) \ {u} : db'[x] = db[x]

\* C18: /subscribe with arguments replaces the user's whole flag set: a flag
\* is true afterwards exactly when an argument names it, so a flag enabled
\* before and not named is cleared and arguments naming no flag leave all
\* three false; /subscribe without arguments does not write the store.
C18_SubscribeReplacesFlags ==
  [][\A u \in Users, args \in ArgLists :
       Subscribe(u, args) =>
         IF args = <<>>
           THEN db' = db
           ELSE /\ OthersKept(u)
                /\ DOMAIN db'[u].prefs = Keys
                /\ \A k \in Keys :
                     db'[u].prefs[k] <=>
                       \E i \in 1..Len(args) : FlagNamedBy(args[i]) = k
                /\ db'[u].tz = GetUser(db, u).tz]_vars

\* /subscribe JOBS_IN by a user whose jobs_au flag was enabled: jobs_in is
\* now the only enabled flag.
C18_Witness ==
  /\ req.cmd = "subscribe"
  /\ reply.kind = "subscribed"
  /\ req.args = <<"JOBS_IN">>
  /\ req.before["jobs_au"]
  /\ db[req.user].prefs = [k \in Keys |-> k = "jobs_in"]

\* ------------------------------------------- properties: content commands

\* The flags a content command stands for.
OwnFlags(cmd) ==
  CASE cmd = "jobs_au" -> {"jobs_au"}
    [] cmd = "jobs_in" -> {"jobs_in"}
    [] cmd = "aitools" -> {"ai_tools"}
    [] cmd = "both"    -> {"jobs_au", "ai_tools"}

\* A step of a content command sets its own flags and keeps every other.
ContentStepEnables ==
  \A u \in Users, cmd \in ContentCommands :
    ContentCommand(u, cmd) =>
      /\ OthersKept(u)
      /\ \A k \in OwnFlags(cmd) : db'[u].prefs[k]
      /\ \A k \in Keys : PrefsOf(db, u)[k] => db'[u].prefs[k]
      /\ \A k \in Keys \ OwnFlags(cmd) : db'[u].prefs[k] = PrefsOf(db, u)[k]

\* A step of /jobs or of free-text search leaves the store as it was.
SearchStepKeepsStore ==
  /\ \A u \in Users, args \in JobArgSamples : Jobs(u, args) => db' = db
  /\ \A u \in Users, text \in TextSamples : TextSearch(u, text) => db' = db

\* C19: jobs_au, jobs_in, aitools and both set their own flags true and set
\* no flag false, so the enabled flags of a user only grow under them; /jobs
\* and free-text search never write the store.
C19_ContentCommandsOnlyEnable ==
  [][ContentStepEnables /\ SearchStepKeepsStore]_vars

\* /both by a user who had only jobs_in enabled: all three flags are on.
C19_Witness ==
  /\ req.cmd = "both"
  /\ req.before = [k \in Keys |-> k = "jobs_in"]
  /\ db[req.user].prefs = [k \in Keys |-> TRUE]

\* ------------------------------------------------ properties: the records

\* C16: whatever commands and buttons are used, a record once created is
\* never removed, and every stored record holds exactly the three flags, each
\* a boolean: no other key is persisted, not even after a toggle callback
\* carrying an unknown key.
C16_RecordsStayWellFormed ==
  [][/\ (DOMAIN db) \subseteq (DOMAIN db')
     /\ \A u \in DOMAIN db' :
          /\ DOMAIN db'[u].prefs = Keys
          /\ \A k \in Keys : db'[u].prefs[k] \in BOOLEAN]_vars

\* A toggle callback with an unknown key has just been handled for a user
\* who has a record with an enabled flag.
C16_Witness ==
  /\ req.cmd = "toggle"
  /\ req.args = <<"bogus">>
  /\ req.user \in DOMAIN db
  /\ DOMAIN db[req.user].prefs = Keys
  /\ db[req.user].prefs["ai_tools"]

\* ------------------------------------------------- interleaved handlers

\* The user both coroutines act for.
RaceUser == "u1"

\* The handlers of sub_callback and subscribe a coroutine can run, with the
\* callback key or the argument list.
RaceOps ==
  {[op |-> "toggle", arg |-> <<k>>] : k \in CallbackKeys}
    \cup {[op |-> o, arg |-> <<>>] : o \in {"open", "nop", "clear", "done"}}
    \cup {[op |-> "subscribe", arg |-> a] :
            a \in {<<>>, <<"jobs_au">>, <<"JOBS_IN", "Ai_Tools">>,
                   <<"weather">>}}

\* sub_callback suspends in "await query.answer()" before it reads anything;
\* subscribe runs up to its reply.
IsCallback(t) == t.op \in {"open", "nop", "clear", "done", "toggle"}

\* Variant of ReadPrefs: the flags are those the store held when the callback
\* was dispatched, before the suspension in query.answer().
ReadPrefsEarly(t, d) == t.seen

\* get_user(user_id) of lines 264-266, in the block that follows the
\* suspension: the flags the store holds when that block runs.
ReadPrefs(t, d) == PrefsOf(d, RaceUser)

\* The store after the block of handler t that lies between two suspension
\* points, run on store d.
TaskWrites(t, d) ==
  CASE t.op = "clear" -> UpsertUser(d, RaceUser, ClearPrefs, NoTz)
    [] t.op = "done"  -> UpsertUser(d, RaceUser, ReadPrefs(t, d), NoTz)
    [] t.op = "subscribe" /\ t.arg # <<>> ->
         UpsertUser(d, RaceUser, SubscribePrefs(t.arg), NoTz)
    [] OTHER -> d

\* Where handler t is once its block has run: nop returns, every other
\* handler is suspended in the call that sends its answer.
AfterBlock(t) == IF t.op = "nop" THEN "finished" ELSE "replying"

SetTask(i, t) == [race EXCEPT !.tasks[i] = t]

\* An update for the user is dispatched to coroutine slot i.  The first of
\* two fixes the store the pair is compared against.
Dispatch(i, o) ==
  LET t     == [op |-> o.op, arg |-> o.arg, pc |-> "answering",
                seen |-> PrefsOf(db, RaceUser)]
      fresh == \A j \in 1..2 : race.tasks[j].pc = "free"
      begun == IF fresh THEN [race EXCEPT !.base = db] ELSE race
  IN  /\ Idle
      /\ race.tasks[i].pc = "free"
      /\ IF IsCallback(t)
           THEN /\ race' = [begun EXCEPT !.tasks[i] = t]
                /\ UNCHANGED db
           ELSE /\ db' = TaskWrites(t, db)
                /\ race' = [begun EXCEPT
                              !.tasks[i] = [t EXCEPT !.pc = AfterBlock(t)]]
      /\ UNCHANGED <<view, watched, snap, tog, CHANNEL_ID, pc, batch, idx,
                     fetched, msg, attempts, failed, processed, chan>>

\* The event loop resumes the coroutine in slot i at its suspension point.
Resume(i) ==
  LET t == race.tasks[i]
  IN  /\ t.pc \in {"answering", "replying"}
      /\ IF t.pc = "answering"
           THEN /\ db' = TaskWrites(t, db)
                /\ race' = SetTask(i, [t EXCEPT !.pc = AfterBlock(t)])
           ELSE /\ race' = SetTask(i, [t EXCEPT !.pc = "finished"])
                /\ UNCHANGED db
      /\ UNCHANGED <<view, watched, snap, tog, CHANNEL_ID, pc, batch, idx,
                     fetched, msg, attempts, failed, processed, chan>>

BothFinished == \A i \in 1..2 : race.tasks[i].pc = "finished"

\* Both coroutines have returned; the slots take the next updates.
RaceOver ==
  /\ BothFinished
  /\ race' = NoRace
  /\ UNCHANGED <<db, view, watched, snap, tog, CHANNEL_ID, pc, batch, idx,
                 fetched, msg, attempts, failed, processed, chan>>

RaceNext ==
  \/ \E i \in 1..2, o \in RaceOps : Dispatch(i, o) /\ Quiet
  \/ \E i \in 1..2 : Resume(i) /\ Quiet
  \/ RaceOver /\ Quiet

RaceSpec == CommandInit /\ [][RaceNext]_vars

\* ------------------------------------------ properties: interleaving

\* Handler t run alone, from dispatch to return, on store d.
RunAlone(t, d) ==
  TaskWrites([t EXCEPT !.seen = PrefsOf(d, RaceUser)], d)

\* The stores the two handlers leave when one runs after the other.
SerialOutcomes ==
  LET a == race.tasks[1]
      b == race.tasks[2]
  IN  {RunAlone(b, RunAlone(a, race.base)), RunAlone(a, RunAlone(b, race.base))}

\* C17: two handlers of one user interleaved at their suspension points lose
\* no update: once both have returned, the store is the one some serial
\* order of the two leaves.
C17_InterleavingIsSerial == BothFinished => db \in SerialOutcomes

\* A "done" callback was suspended in query.answer() while /subscribe
\* JOBS_IN Ai_Tools wrote the store; both have returned and the flags
\* subscribe wrote are stored.
C17_Witness ==
  /\ BothFinished
  /\ race.tasks[1].op = "done"
  /\ race.tasks[2].op = "subscribe"
  /\ race.tasks[1].seen # PrefsOf(db, RaceUser)
  /\ PrefsOf(db, RaceUser) = SubscribePrefs(race.tasks[2].arg)
  /\ race.tasks[2].arg = <<"JOBS_IN", "Ai_Tools">>

====
